---- MODULE Spec2Model ----
(***************************************************************************)
(* Model of app.py (AI Credit Controller): the reminder sweep, the inbox   *)
(* fetch and the per-message triage of one Streamlit session, together     *)
(* with the pure helpers they use (ollama_generate, the two classifiers,   *)
(* extract_email_address).                                                 *)
(*                                                                         *)
(* Python strings are sequences of one-character strings.  An optional     *)
(* value (a header that may be None) is a record [none, s].  The result of *)
(* a call that may raise is a record [exc, val]: exc = "" on return.       *)
(***************************************************************************)
EXTENDS Integers, Sequences, FiniteSets, TLC

VARIABLES
    creds,              \* EMAIL_ADDRESS and EMAIL_PASSWORD are both set
    invoices,           \* content of invoices.json, as load_invoices returns it
    mailbox,            \* the IMAP inbox: messages with their \Seen flag
    log_history,        \* st.session_state["log_history"]
    reminders_sent,     \* "reminders_sent" in st.session_state
    pc,                 \* position of the script run
    overdue_invoices,   \* check_overdue(invoices) of the current run
    inv_i,              \* position of the reminder loop in overdue_invoices
    replies,            \* what check_inbox returned to the current run
    reply_i,            \* position of the triage loop in replies
    sent,               \* every message smtp.send_message delivered
    calls,              \* every ollama_client.generate call made
    runs,               \* number of script runs started in the session
    fn_arg,             \* argument of the pure function under evaluation
    fn_res              \* results of the pure function under evaluation

vars == << creds, invoices, mailbox, log_history, reminders_sent, pc,
           overdue_invoices, inv_i, replies, reply_i, sent, calls, runs,
           fn_arg, fn_res >>

prog_vars == << creds, invoices, mailbox, log_history, reminders_sent, pc,
                overdue_invoices, inv_i, replies, reply_i, sent, calls, runs >>

-----------------------------------------------------------------------------
(* Bounds *)

MaxLen == 4         \* longest string drawn as input of a pure function
MaxItems == 2       \* invoices in invoices.json plus messages delivered, per session
MaxRuns == 2        \* script runs in one session
MaxLongRuns == 52   \* script runs in one session that has nothing to do

-----------------------------------------------------------------------------
(* Python values *)

NoneVal == [none |-> TRUE, s |-> << >>]
Str(s) == [none |-> FALSE, s |-> s]

Return(v) == [exc |-> "", val |-> v]
Raise(e) == [exc |-> e, val |-> << >>]

RECURSIVE Strings(_, _)
Strings(alphabet, n) ==
    IF n = 0 THEN { << >> }
    ELSE LET shorter == Strings(alphabet, n - 1)
         IN  shorter \cup { Append(s, c) : s \in shorter, c \in alphabet }

\* str.strip(): leading and trailing whitespace removed.
IsSpace(c) == c \in {" ", "\n"}

RECURSIVE lstrip(_)
lstrip(s) == IF s # << >> /\ IsSpace(Head(s)) THEN lstrip(Tail(s)) ELSE s

RECURSIVE rstrip(_)
rstrip(s) ==
    IF s # << >> /\ IsSpace(s[Len(s)]) THEN rstrip(SubSeq(s, 1, Len(s) - 1)) ELSE s

strip(s) == rstrip(lstrip(s))

\* str.lower(), on the letters the model's texts are made of.
lower_char(c) ==
    CASE c = "Y" -> "y" [] c = "E" -> "e" [] c = "S" -> "s"
      [] c = "N" -> "n" [] c = "O" -> "o" [] OTHER -> c

lower_keep(s) == s

lower(s) == [i \in 1..Len(s) |-> lower_char(s[i])]

\* Python's  sub in s  on strings.
contains(sub, s) ==
    \E i \in 1..(Len(s) - Len(sub) + 1) : SubSeq(s, i, i + Len(sub) - 1) = sub

-----------------------------------------------------------------------------
(* The inference client *)

\* What ollama_client.generate does on one call: it raises, it returns a
\* mapping without the 'response' key, or a mapping whose 'response' is text.
Raises == [kind |-> "raise", text |-> << >>]
Missing == [kind |-> "missing", text |-> << >>]
Text(t) == [kind |-> "text", text |-> t]

NO_RESPONSE ==
    << "[", "N", "o", " ", "r", "e", "s", "p", "o", "n", "s", "e", " ",
       "f", "r", "o", "m", " ", "O", "l", "l", "a", "m", "a", "]" >>

ollama_generate(r) ==
    IF r.kind = "raise" THEN Raise("InferenceError")
    ELSE IF r.kind = "text" THEN Return(strip(r.text))
    ELSE Return(NO_RESPONSE)

YES == << "y", "e", "s" >>

ai_should_escalate(r) ==
    LET g == ollama_generate(r)
    IN  IF g.exc # "" THEN g
        ELSE Return(contains(YES, lower(g.val)))

ai_should_reply(r) ==
    LET g == ollama_generate(r)
    IN  IF g.exc # "" THEN g
        ELSE Return(contains(YES, lower(strip(g.val))))

generate_reply(r) == ollama_generate(r)

generate_initial_reminder(r) == ollama_generate(r)

-----------------------------------------------------------------------------
(* Sender extraction *)

\* re.search(r'<(.+?)>', s): the leftmost '<' that is followed by at least one
\* character and then a '>', with no newline in between ('.' does not match a
\* newline); the group ends at the first such '>' (lazy).
GroupEnd(s, i) ==
    LET closers == { j \in (i + 2)..Len(s) : s[j] = ">" }
    IN  IF closers = {} THEN 0
        ELSE LET j == CHOOSE x \in closers : \A y \in closers : x <= y
             IN  IF \E n \in (i + 1)..(j - 1) : s[n] = "\n" THEN 0 ELSE j

re_search(s) ==
    LET starts == { i \in 1..Len(s) : s[i] = "<" /\ GroupEnd(s, i) # 0 }
    IN  IF starts = {} THEN [found |-> FALSE, group |-> << >>]
        ELSE LET i == CHOOSE x \in starts : \A y \in starts : x <= y
             IN  [found |-> TRUE, group |-> SubSeq(s, i + 1, GroupEnd(s, i) - 1)]

extract_email_address(full_address) ==
    IF full_address.none THEN Raise("TypeError")
    ELSE LET match == re_search(full_address.s)
         IN  IF match.found THEN Return(match.group)
             ELSE Return(strip(full_address.s))

-----------------------------------------------------------------------------
(* Configuration and input domains *)

ESCALATION_EMAIL == << "h" >>

Today == 1

\* Messages as they lie in the mailbox.  A message is multipart or a single
\* part; ctype is the content type of the single part, or of the text part a
\* multipart message carries; body is the decoded payload of that part (None
\* when it decodes to nothing).  The From header is a display name with the
\* address in angle brackets, a bare address, or absent; the Subject header
\* may be absent too.
Message(f, subj, mp, ct, b) ==
    [from_ |-> f, subject |-> subj, multipart |-> mp, ctype |-> ct, body |-> b]

Messages ==
    { Message(Str(<< "J", " ", "<", "a", ">" >>), Str(<< "s" >>), TRUE, "text/plain",
              Str(<< "t", "\n" >>)),
      Message(Str(<< "a" >>), Str(<< "s" >>), FALSE, "text/plain", Str(<< "t", "\n" >>)),
      Message(NoneVal, Str(<< "s" >>), FALSE, "text/plain", Str(<< "t", "\n" >>)),
      Message(Str(<< "J", " ", "<", "a", ">" >>), NoneVal, FALSE, "text/plain",
              Str(<< "t", "\n" >>)) }
    \cup { Message(Str(<< "a" >>), Str(<< "s" >>), FALSE, "text/plain", b) :
            b \in { NoneVal, Str(<< >>), Str(<< " ", "\n" >>) } }
    \cup { Message(Str(<< "a" >>), Str(<< "s" >>), mp, "text/html", Str(<< "t", "\n" >>)) :
            mp \in BOOLEAN }

\* What the model may do on a YES/NO prompt, and on a drafting prompt.
Answers ==
    { Raises, Missing, Text(<< >>), Text(<< "Y", "E", "S" >>), Text(<< "N", "O" >>) }

Drafts == { Raises, Missing, Text(<< >>), Text(<< "D", "\n" >>) }

InvoiceKinds ==
    { [status |-> "unpaid", due_date |-> Today - 1],
      [status |-> "paid", due_date |-> Today - 1] }

RECURSIVE InvoiceFiles(_)
InvoiceFiles(n) ==
    IF n = 0 THEN { << >> }
    ELSE LET shorter == InvoiceFiles(n - 1)
         IN  shorter \cup
             { Append(f, [client |-> Len(f) + 1, email |-> << "c" >>,
                          status |-> k.status, due_date |-> k.due_date]) :
                 f \in { g \in shorter : Len(g) = n - 1 }, k \in InvoiceKinds }

-----------------------------------------------------------------------------
(* Helpers of the script *)

check_overdue_or_today(invs) ==
    LET overdue(inv) == inv.status = "unpaid" /\ inv.due_date <= Today
    IN  SelectSeq(invs, overdue)

check_overdue(invs) ==
    LET overdue(inv) == inv.status = "unpaid" /\ inv.due_date < Today
    IN  SelectSeq(invs, overdue)

\* An e-mail as handed to smtp.send_message.  ref is the invoice or message
\* the e-mail was written for.
Email(recipient, subject, body, ref) ==
    [to |-> recipient, subject |-> subject, body |-> body, ref |-> ref]

send_email_unchecked(recipient, subject, body, ref, delivered) ==
    IF ~delivered THEN Raise("SMTPException")
    ELSE Return(Email(recipient, subject, body, ref))

send_email(recipient, subject, body, ref, delivered) ==
    IF ~creds THEN Raise("ValueError")
    ELSE IF ~delivered THEN Raise("SMTPException")
    ELSE Return(Email(recipient, subject, body, ref))

\* One line of the activity log: its bracketed tag, its fixed text, the sender
\* or recipient it names, the exception it reports.  ref is the IMAP number of
\* the message (or the client of the invoice) the line was written for, and 0
\* for a line about no single item.
Entry(tag, what, ref, who, exc) ==
    [tag |-> tag, what |-> what, ref |-> ref, who |-> who, exc |-> exc]

\* One call of the inference client: the function that made it, the item it
\* was made for, what the model did, whether the function raised and, for a
\* classifier, its decision.
Call(fn, ref, got, exc, yes) ==
    [fn |-> fn, ref |-> ref, got |-> got, exc |-> exc, yes |-> yes]

ESCALATION_BODY == << "AI Agent Escalation Notice" >>
CLIENT_MESSAGE == << "Our team has been notified" >>

\* The number of log lines the page shows.
DISPLAYED == 50

log_first ==
    SubSeq(log_history, 1, IF Len(log_history) > DISPLAYED THEN DISPLAYED ELSE Len(log_history))

\* st.session_state["log_history"][-50:]
log_lines ==
    SubSeq(log_history,
           IF Len(log_history) > DISPLAYED THEN Len(log_history) - DISPLAYED + 1 ELSE 1,
           Len(log_history))

-----------------------------------------------------------------------------
(* The triage of one reply: the body of the  for sender, subject, content  loop *)

\* What the processing of one reply adds to the log, the outbox and the calls.
Effect(l, s, c) == [log |-> l, sent |-> s, calls |-> c]

\* except Exception as e: one error line naming the sender and the exception.
error_entry(m, exc) == Entry("[Error]", "Processing reply from", m.num, m.from_, exc)

skip_if_reply(answer) == answer

\* if not ai_should_reply(content): log and continue.
skip_message(answer) == ~answer

reply_to_raw(sender) == Return(sender.s)

\* recipient = extract_email_address(sender), in either branch.
reply_recipient(sender) == extract_email_address(sender)

\* The escalation notice goes to ESCALATION_EMAIL.
notice_recipient(sender) == ESCALATION_EMAIL

\* "Re: " + subject: str + None raises.
re_subject(subject) == IF subject.none THEN Raise("TypeError") ELSE Return("Re")

escalation_ack_first(m, o, c) ==
    LET recipient == reply_recipient(m.from_)
        ack == send_email(recipient.val, "Re", CLIENT_MESSAGE, m.num, o.send1)
        l1 == << Entry("[Escalation]", "Client notified", m.num, Str(recipient.val), "") >>
        notice == send_email(notice_recipient(m.from_), "Escalation Needed",
                             ESCALATION_BODY, m.num, o.send2)
    IN  IF recipient.exc # "" THEN Effect(<< error_entry(m, recipient.exc) >>, << >>, c)
        ELSE IF ack.exc # "" THEN Effect(<< error_entry(m, ack.exc) >>, << >>, c)
        ELSE IF notice.exc # ""
        THEN Effect(l1 \o << error_entry(m, notice.exc) >>, << ack.val >>, c)
        ELSE Effect(l1 \o << Entry("[Escalation]", "Escalated to human team", m.num,
                                   m.from_, "") >>,
                    << ack.val, notice.val >>, c)

escalation_branch(m, o, c) ==
    LET notice == send_email(notice_recipient(m.from_), "Escalation Needed",
                             ESCALATION_BODY, m.num, o.send1)
        l1 == << Entry("[Escalation]", "Escalated to human team", m.num, m.from_, "") >>
        recipient == reply_recipient(m.from_)
        ack == send_email(recipient.val, "Re", CLIENT_MESSAGE, m.num, o.send2)
    IN  IF notice.exc # "" THEN Effect(<< error_entry(m, notice.exc) >>, << >>, c)
        ELSE IF recipient.exc # ""
        THEN Effect(l1 \o << error_entry(m, recipient.exc) >>, << notice.val >>, c)
        ELSE IF ack.exc # ""
        THEN Effect(l1 \o << error_entry(m, ack.exc) >>, << notice.val >>, c)
        ELSE Effect(l1 \o << Entry("[Escalation]", "Client notified", m.num,
                                   Str(recipient.val), "") >>,
                    << notice.val, ack.val >>, c)

ai_reply_branch(m, o, c) ==
    LET reply == generate_reply(o.draft)
        c3 == c \o << Call("generate_reply", m.num, o.draft, reply.exc, FALSE) >>
        recipient == reply_recipient(m.from_)
        subject == re_subject(m.subject)
        mail == send_email(recipient.val, "Re", reply.val, m.num, o.send1)
    IN  IF reply.exc # "" THEN Effect(<< error_entry(m, reply.exc) >>, << >>, c3)
        ELSE IF recipient.exc # ""
        THEN Effect(<< error_entry(m, recipient.exc) >>, << >>, c3)
        ELSE IF subject.exc # ""
        THEN Effect(<< error_entry(m, subject.exc) >>, << >>, c3)
        ELSE IF mail.exc # "" THEN Effect(<< error_entry(m, mail.exc) >>, << >>, c3)
        ELSE Effect(<< Entry("[AI Reply]", "Sent to", m.num, Str(recipient.val), "") >>,
                    << mail.val >>, c3)

\* o is what the outside world does during the processing: the model's answer
\* to each prompt and whether each send is delivered.
process_reply(m, o) ==
    LET should_reply == ai_should_reply(o.reply)
        c1 == << Call("ai_should_reply", m.num, o.reply, should_reply.exc,
                      should_reply.exc = "" /\ should_reply.val) >>
        should_escalate == ai_should_escalate(o.escalate)
        c2 == c1 \o << Call("ai_should_escalate", m.num, o.escalate, should_escalate.exc,
                             should_escalate.exc = "" /\ should_escalate.val) >>
    IN  IF should_reply.exc # ""
        THEN Effect(<< error_entry(m, should_reply.exc) >>, << >>, c1)
        ELSE IF skip_message(should_reply.val)
        THEN Effect(<< Entry("[No Reply Needed]", "Message skipped", m.num, m.from_, "") >>,
                    << >>, c1)
        ELSE IF should_escalate.exc # ""
        THEN Effect(<< error_entry(m, should_escalate.exc) >>, << >>, c2)
        ELSE IF should_escalate.val THEN escalation_branch(m, o, c2)
        ELSE ai_reply_branch(m, o, c2)

Outside ==
    [reply : Answers, escalate : Answers, draft : Drafts,
     send1 : BOOLEAN, send2 : BOOLEAN]

-----------------------------------------------------------------------------
(* The inbox fetch *)

\* imap.search(None, '(UNSEEN)'): the numbers of the unseen messages, ascending.
unseen_ids == { j \in 1..Len(mailbox) : ~mailbox[j].seen }

RECURSIVE Ascending(_)
Ascending(ids) ==
    IF ids = {} THEN << >>
    ELSE LET least == CHOOSE x \in ids : \A y \in ids : x <= y
         IN  << least >> \o Ascending(ids \ { least })

email_ids == Ascending(unseen_ids)

\* payload of one fetched message.  Of a multipart message: the payload of
\* its text/plain part, if it has one that decodes to a non-empty byte string.
\* Of a single-part message: its payload whatever its content type, if it
\* decodes to a non-empty byte string.  None otherwise.
payload_of(msg) ==
    IF msg.multipart /\ msg.ctype # "text/plain" THEN NoneVal
    ELSE IF msg.body.none \/ msg.body.s = << >> THEN NoneVal
    ELSE msg.body

\* if payload and payload.strip(): replies.append((from_, subject, payload.strip())).
\* num is the IMAP number of the message the tuple was made from.
keeps(msg) == ~payload_of(msg).none /\ strip(payload_of(msg).s) # << >>

reply_of(num) ==
    [num |-> num, from_ |-> mailbox[num].from_, subject |-> mailbox[num].subject,
     content |-> strip(payload_of(mailbox[num]).s)]

RECURSIVE replies_of(_)
replies_of(ids) ==
    IF ids = << >> THEN << >>
    ELSE (IF keeps(mailbox[Head(ids)]) THEN << reply_of(Head(ids)) >> ELSE << >>)
         \o replies_of(Tail(ids))

fetched_unmarked(ids) == mailbox

\* imap.fetch(num, "(RFC822)") sets the \Seen flag of the message it returns.
fetched(ids) ==
    [j \in 1..Len(mailbox) |->
        IF \E x \in 1..Len(ids) : ids[x] = j
        THEN [mailbox[j] EXCEPT !.seen = TRUE] ELSE mailbox[j]]

\* check_inbox when the connection breaks after n messages were fetched
\* (broken = FALSE: every unseen message is fetched and the list is returned).
check_inbox(n, broken) ==
    IF ~creds THEN [exc |-> "ValueError", val |-> << >>, inbox |-> mailbox]
    ELSE IF broken
    THEN [exc |-> "IMAP4.error", val |-> << >>, inbox |-> fetched(SubSeq(email_ids, 1, n))]
    ELSE [exc |-> "", val |-> replies_of(email_ids), inbox |-> fetched(email_ids)]

-----------------------------------------------------------------------------
(* The session *)

Init ==
    /\ creds \in BOOLEAN
    /\ invoices \in InvoiceFiles(MaxItems)
    /\ mailbox = << >>
    /\ log_history = << >>
    /\ reminders_sent = FALSE
    /\ pc = "idle"
    /\ overdue_invoices = << >>
    /\ inv_i = 1
    /\ replies = << >>
    /\ reply_i = 1
    /\ sent = << >>
    /\ calls = << >>
    /\ runs = 0
    /\ fn_arg = NoneVal
    /\ fn_res = << >>

\* A client's message arrives in the inbox.
Deliver ==
    /\ pc = "idle"
    /\ Len(invoices) + Len(mailbox) < MaxItems
    /\ \E msg \in Messages :
          mailbox' = Append(mailbox, [from_ |-> msg.from_, subject |-> msg.subject,
                                      multipart |-> msg.multipart, ctype |-> msg.ctype,
                                      body |-> msg.body, seen |-> FALSE])
    /\ UNCHANGED << creds, invoices, log_history, reminders_sent, pc, overdue_invoices,
                    inv_i, replies, reply_i, sent, calls, runs, fn_arg, fn_res >>

sweep_every_run(flag) == TRUE

\* if "reminders_sent" not in st.session_state
sweep_due(flag) == ~flag

\* The script runs from the top (first load, or the 30 s auto-refresh): the
\* log is kept, the invoices are loaded and the overdue ones selected.
StartRun ==
    /\ pc = "idle"
    /\ runs' = runs + 1
    /\ overdue_invoices' = check_overdue(invoices)
    /\ inv_i' = 1
    /\ pc' = IF sweep_due(reminders_sent) THEN "reminders" ELSE "inbox"
    /\ UNCHANGED << creds, invoices, mailbox, log_history, reminders_sent, replies,
                    reply_i, sent, calls, fn_arg, fn_res >>

Rerun == runs < MaxRuns /\ StartRun

after_sweep_reraised(raised) == IF raised THEN "idle" ELSE "inbox"

\* Where the run goes on after the if block of the sweep: the except clause
\* swallows the exception, so the inbox check follows in either case.
after_sweep(raised) == "inbox"

\* else: no overdue invoice: one log line, and the flag is set.
NoOverdue ==
    /\ pc = "reminders"
    /\ overdue_invoices = << >>
    /\ log_history' = Append(log_history,
                             Entry("[Reminder]", "No overdue invoices found", 0, NoneVal, ""))
    /\ reminders_sent' = TRUE
    /\ pc' = after_sweep(FALSE)
    /\ UNCHANGED << creds, invoices, mailbox, overdue_invoices, inv_i, replies, reply_i,
                    sent, calls, runs, fn_arg, fn_res >>

\* The position after one invoice of the reminder loop: an exception leaves
\* the loop (the try encloses the whole loop).
next_invoice(i, raised) == IF raised THEN Len(overdue_invoices) + 1 ELSE i + 1

\* One iteration of  for inv in overdue_invoices, with the end of the try
\* block (the flag, or the except clause) when it is the last one executed.
RemindInvoice ==
    /\ pc = "reminders"
    /\ inv_i <= Len(overdue_invoices)
    /\ \E r \in Drafts, delivered \in BOOLEAN :
          LET inv == overdue_invoices[inv_i]
              body == generate_initial_reminder(r)
              mail == send_email(inv.email, "Payment Reminder", body.val, inv.client,
                                 delivered)
              exc == IF body.exc # "" THEN body.exc ELSE mail.exc
              i == next_invoice(inv_i, exc # "")
          IN  /\ calls' = Append(calls, Call("generate_initial_reminder", inv.client, r,
                                          body.exc, FALSE))
              /\ sent' = IF exc = "" THEN Append(sent, mail.val) ELSE sent
              /\ log_history' =
                    Append(log_history,
                           IF exc = ""
                           THEN Entry("[Reminder]", "Sent to", inv.client, Str(inv.email), "")
                           ELSE Entry("[Error]", "Overdue check", 0, NoneVal, exc))
              /\ inv_i' = i
              /\ reminders_sent' = (exc = "" /\ i > Len(overdue_invoices))
              /\ pc' = IF i > Len(overdue_invoices) THEN after_sweep(exc # "")
                       ELSE "reminders"
    /\ UNCHANGED << creds, invoices, mailbox, overdue_invoices, replies, reply_i, runs,
                    fn_arg, fn_res >>

\* replies = check_inbox(debug=True) and the lines up to the loop.
CheckInbox ==
    /\ pc = "inbox"
    /\ \E n \in 0..Len(email_ids), broken \in BOOLEAN :
          /\ broken \/ n = Len(email_ids)
          /\ LET got == check_inbox(n, broken)
             IN  /\ mailbox' = got.inbox
                 /\ replies' = IF got.exc = "" THEN got.val ELSE replies
                 /\ log_history' =
                       Append(log_history,
                              IF got.exc # ""
                              THEN Entry("[Error]", "Auto inbox check", 0, NoneVal, got.exc)
                              ELSE IF got.val = << >>
                              THEN Entry("[Auto Inbox Check]", "No new replies", 0, NoneVal, "")
                              ELSE Entry("[Auto Inbox Check]", "Found new email(s)",
                                         0, NoneVal, ""))
                 /\ pc' = IF got.exc = "" /\ got.val # << >> THEN "triage" ELSE "idle"
    /\ reply_i' = 1
    /\ UNCHANGED << creds, invoices, reminders_sent, overdue_invoices, inv_i, sent, calls,
                    runs, fn_arg, fn_res >>

\* The position after one reply of the triage loop: the except clause is
\* inside the loop, so the loop goes on to the next reply.
next_reply(i, raised) == i + 1

\* One iteration of  for sender, subject, content in replies.
ProcessReply ==
    /\ pc = "triage"
    /\ reply_i <= Len(replies)
    /\ \E did \in { process_reply(replies[reply_i], o) : o \in Outside } :
          LET i == next_reply(reply_i, did.log[Len(did.log)].tag = "[Error]")
          IN  /\ log_history' = log_history \o did.log
              /\ sent' = sent \o did.sent
              /\ calls' = calls \o did.calls
              /\ reply_i' = i
              /\ pc' = IF i > Len(replies) THEN "idle" ELSE "triage"
    /\ UNCHANGED << creds, invoices, mailbox, reminders_sent, overdue_invoices, inv_i,
                    replies, runs, fn_arg, fn_res >>

Next == Deliver \/ Rerun \/ NoOverdue \/ RemindInvoice \/ CheckInbox \/ ProcessReply

Spec == Init /\ [][Next]_vars

\* A session with no credentials and no invoices does the same two things in
\* every run (the sweep is over after the first one, the inbox check fails),
\* so it can be followed for many more runs.
RerunLong ==
    /\ ~creds
    /\ invoices = << >>
    /\ runs < MaxLongRuns
    /\ StartRun

NextLong == Next \/ RerunLong

SpecLong == Init /\ [][NextLong]_vars

-----------------------------------------------------------------------------
(* The pure functions on their own: one argument is drawn, the function is *)
(* applied to it, and the program itself stays at rest.                    *)

AtRest ==
    /\ creds = TRUE
    /\ invoices = << >>
    /\ mailbox = << >>
    /\ log_history = << >>
    /\ reminders_sent = FALSE
    /\ pc = "idle"
    /\ overdue_invoices = << >>
    /\ inv_i = 1
    /\ replies = << >>
    /\ reply_i = 1
    /\ sent = << >>
    /\ calls = << >>
    /\ runs = 0

HeaderChars == { "<", ">", " ", "\n", "a" }

Headers == { NoneVal } \cup { Str(s) : s \in Strings(HeaderChars, MaxLen) }

InitExtract == AtRest /\ fn_arg \in Headers /\ fn_res = << >>

\* extract_email_address(fn_arg)
Extract ==
    /\ fn_res = << >>
    /\ fn_res' = << extract_email_address(fn_arg) >>
    /\ UNCHANGED << prog_vars, fn_arg >>

\* extract_email_address applied to its own result
ExtractAgain ==
    /\ Len(fn_res) = 1
    /\ fn_res[1].exc = ""
    /\ fn_res' = Append(fn_res, extract_email_address(Str(fn_res[1].val)))
    /\ UNCHANGED << prog_vars, fn_arg >>

NextExtract == Extract \/ ExtractAgain

SpecExtract == InitExtract /\ [][NextExtract]_vars

\* Invoice lists for check_overdue: paid and unpaid invoices due yesterday,
\* today and tomorrow, in any order.
DueKinds ==
    { [status |-> st, due_date |-> d] :
        st \in { "unpaid", "paid" }, d \in { Today - 1, Today, Today + 1 } }

RECURSIVE InvoiceLists(_)
InvoiceLists(n) ==
    IF n = 0 THEN { << >> }
    ELSE LET shorter == InvoiceLists(n - 1)
         IN  shorter \cup
             { Append(f, [client |-> Len(f) + 1, email |-> << "c" >>,
                          status |-> k.status, due_date |-> k.due_date]) :
                 f \in { g \in shorter : Len(g) = n - 1 }, k \in DueKinds }

InitOverdue == AtRest /\ fn_arg \in InvoiceLists(MaxLen) /\ fn_res = << >>

\* check_overdue(fn_arg)
Overdue ==
    /\ fn_res = << >>
    /\ fn_res' = << check_overdue(fn_arg) >>
    /\ UNCHANGED << prog_vars, fn_arg >>

NextOverdue == Overdue

SpecOverdue == InitOverdue /\ [][NextOverdue]_vars

AnswerChars == { "Y", "y", "E", "e", "S", "s", "n", " " }

ModelResponses == { Raises, Missing } \cup { Text(t) : t \in Strings(AnswerChars, MaxLen) }

InitClassify == AtRest /\ fn_arg \in ModelResponses /\ fn_res = << >>

\* ai_should_reply with the model answering fn_arg
Reply ==
    /\ fn_res = << >>
    /\ fn_res' = << ai_should_reply(fn_arg) >>
    /\ UNCHANGED << prog_vars, fn_arg >>

\* ai_should_escalate with the model answering fn_arg
Escalate ==
    /\ Len(fn_res) = 1
    /\ fn_res' = Append(fn_res, ai_should_escalate(fn_arg))
    /\ UNCHANGED << prog_vars, fn_arg >>

NextClassify == Reply \/ Escalate

SpecClassify == InitClassify /\ [][NextClassify]_vars

-----------------------------------------------------------------------------
(* What the session shows about one message.  A message is known by its    *)
(* IMAP number, its position in the mailbox.                               *)

MsgIds == 1..Len(mailbox)

IsReplyEntry(e) ==
    \/ e.tag \in { "[No Reply Needed]", "[Escalation]", "[AI Reply]" }
    \/ e.tag = "[Error]" /\ e.what = "Processing reply from"

\* The log lines, the e-mails and the inference calls made for message id.
MsgEntries(id) ==
    LET mine(e) == IsReplyEntry(e) /\ e.ref = id
    IN  SelectSeq(log_history, mine)

MsgMails(id) ==
    LET mine(e) == e.subject # "Payment Reminder" /\ e.ref = id
    IN  SelectSeq(sent, mine)

MsgCalls(id) ==
    LET mine(c) == c.fn # "generate_initial_reminder" /\ c.ref = id
    IN  SelectSeq(calls, mine)

Tags(entries) == [i \in 1..Len(entries) |-> entries[i].tag]

\* The classifier fn returned yes (TRUE) or no (FALSE) for message id.
Decided(id, fn, yes) ==
    \E i \in 1..Len(calls) :
        calls[i].fn = fn /\ calls[i].ref = id /\ calls[i].exc = "" /\ calls[i].yes = yes

\* The processing of message id ended in the except clause.
Failed(id) == \E i \in 1..Len(MsgEntries(id)) : MsgEntries(id)[i].tag = "[Error]"

\* The messages of the batch check_inbox last returned.
Batch == { replies[j].num : j \in 1..Len(replies) }

-----------------------------------------------------------------------------
(* C1..C10 *)

\* C1: after any triage cycle, every message the fetch marked as seen has
\* exactly one outcome record in the log (never none, never more than one).
C1_OneRecordPerFetchedMessage ==
    pc = "idle" =>
        \A id \in MsgIds : mailbox[id].seen => Len(MsgEntries(id)) = 1

\* C2: when a message of a batch of N fails, the cycle yields exactly N
\* per-message records: one error record naming the sender and the exception
\* for the failed message, and for every other message its own outcome.
C2_FailureIsolation ==
    (pc = "idle" /\ \E k \in Batch : Failed(k)) =>
        \A id \in Batch :
            /\ Len(MsgEntries(id)) = 1
            /\ Failed(id) =>
                  /\ MsgEntries(id)[1].who = mailbox[id].from_
                  /\ MsgEntries(id)[1].exc # ""
            /\ (~Failed(id) /\ Decided(id, "ai_should_reply", FALSE)) =>
                  Tags(MsgEntries(id)) = << "[No Reply Needed]" >>
            /\ (~Failed(id) /\ Decided(id, "ai_should_escalate", TRUE)) =>
                  Tags(MsgEntries(id)) = << "[Escalation]" >>
            /\ (~Failed(id) /\ Decided(id, "ai_should_escalate", FALSE)) =>
                  Tags(MsgEntries(id)) = << "[AI Reply]" >>

\* C3: a message with needs_reply and needs_escalation both true, and no
\* failure, gets exactly two e-mails (the escalation notice to the escalation
\* address, then the acknowledgment to the address extracted from the sender)
\* and exactly one escalated record.
C3_EscalationTwoSendsOneRecord ==
    \A id \in MsgIds :
        ( /\ Decided(id, "ai_should_reply", TRUE)
          /\ Decided(id, "ai_should_escalate", TRUE)
          /\ ~Failed(id) ) =>
            /\ MsgMails(id) =
                  << Email(ESCALATION_EMAIL, "Escalation Needed", ESCALATION_BODY, id),
                     Email(extract_email_address(mailbox[id].from_).val, "Re",
                           CLIENT_MESSAGE, id) >>
            /\ Tags(MsgEntries(id)) = << "[Escalation]" >>

\* C4: a message classified needs_reply = false causes no send, no reply
\* generation and no further model call, and gets exactly one
\* no-reply-needed record.
C4_NoReplyNeeded ==
    \A id \in MsgIds :
        Decided(id, "ai_should_reply", FALSE) =>
            /\ MsgMails(id) = << >>
            /\ Len(MsgCalls(id)) = 1
            /\ MsgCalls(id)[1].fn = "ai_should_reply"
            /\ Tags(MsgEntries(id)) = << "[No Reply Needed]" >>

C4_Witness ==
    \E id \in MsgIds :
        /\ Decided(id, "ai_should_reply", FALSE)
        /\ Len(MsgEntries(id)) = 1
        /\ pc = "idle"

\* C5: a message with needs_reply = true and needs_escalation = false, and no
\* failure, gets exactly one e-mail, the generated reply, addressed to the
\* address extracted from the sender header; nothing goes to the escalation
\* address; exactly one ai-reply-sent record is appended.
C5_AiReply ==
    \A id \in MsgIds :
        ( /\ Decided(id, "ai_should_reply", TRUE)
          /\ Decided(id, "ai_should_escalate", FALSE)
          /\ ~Failed(id) ) =>
            /\ Len(MsgCalls(id)) = 3
            /\ MsgCalls(id)[3].fn = "generate_reply"
            /\ MsgMails(id) =
                  << Email(extract_email_address(mailbox[id].from_).val, "Re",
                           ollama_generate(MsgCalls(id)[3].got).val, id) >>
            /\ MsgMails(id)[1].to # ESCALATION_EMAIL
            /\ \A i \in 1..Len(MsgMails(id)) :
                  MsgMails(id)[i].subject # "Escalation Needed"
            /\ Tags(MsgEntries(id)) = << "[AI Reply]" >>

C5_Witness ==
    \E id \in MsgIds :
        /\ Decided(id, "ai_should_reply", TRUE)
        /\ Decided(id, "ai_should_escalate", FALSE)
        /\ ~Failed(id)
        /\ Len(MsgMails(id)) = 1
        /\ mailbox[id].from_ = Str(<< "J", " ", "<", "a", ">" >>)
        /\ MsgMails(id)[1].to = << "a" >>

\* C6: the reminder sweep isolates errors per invoice: a sweep over M overdue
\* invoices drafts a reminder for each of them and yields exactly M records.
C6_SweepIsolatesInvoices ==
    (runs = 1 /\ pc = "inbox" /\ overdue_invoices # << >>) =>
        /\ Len(log_history) = Len(overdue_invoices)
        /\ \A j \in 1..Len(overdue_invoices) :
              \E i \in 1..Len(calls) :
                  /\ calls[i].fn = "generate_initial_reminder"
                  /\ calls[i].ref = overdue_invoices[j].client

\* C7: no e-mail is sent whose body is a failed generation (empty text or
\* the no-response sentinel).
C7_NoFailedGenerationSent ==
    \A i \in 1..Len(sent) : sent[i].body # << >> /\ sent[i].body # NO_RESPONSE

\* C8: extract_email_address never raises, whatever the From header (also
\* when there is none); it returns the text inside the first '<' '>' pair if
\* there is one and the trimmed string otherwise; and applied to its own
\* result it returns that result.
\* A pair is a '<' with a '>' after it and something in between.
FirstPair(s) ==
    LET opens == { i \in 1..Len(s) : s[i] = "<" /\ \E j \in (i + 2)..Len(s) : s[j] = ">" }
        i == CHOOSE x \in opens : \A y \in opens : x <= y
        j == CHOOSE x \in (i + 2)..Len(s) :
                 s[x] = ">" /\ \A y \in (i + 2)..(x - 1) : s[y] # ">"
    IN  IF opens = {} THEN strip(s) ELSE SubSeq(s, i + 1, j - 1)

C8_ExtractTotalIdempotent ==
    /\ Len(fn_res) >= 1 =>
          /\ fn_res[1].exc = ""
          /\ ~fn_arg.none => fn_res[1].val = FirstPair(fn_arg.s)
    /\ Len(fn_res) = 2 => fn_res[2] = fn_res[1]

\* C9: each classifier returns true exactly when the model's response text,
\* lower-cased, contains "yes"; it returns false on any other text, on the
\* empty response and on the no-response sentinel.
SaysYes(r) ==
    /\ r.kind = "text"
    /\ \E i \in 1..(Len(r.text) - 2) :
          /\ r.text[i] \in { "y", "Y" }
          /\ r.text[i + 1] \in { "e", "E" }
          /\ r.text[i + 2] \in { "s", "S" }

C9_YesIffContainsYes ==
    fn_arg.kind # "raise" =>
        \A i \in 1..Len(fn_res) : fn_res[i] = Return(SaysYes(fn_arg))

C9_Witness ==
    /\ fn_arg = Text(<< " ", "Y", "E", "s" >>)
    /\ fn_res = << Return(TRUE), Return(TRUE) >>

\* C10: when the inference call of a classifier fails (it raises, or the
\* response is missing or empty), the classifier answers NO without raising,
\* so the message is neither escalated nor turned into an error.
NoAnswer(r) == r.kind \in { "raise", "missing" } \/ (r.kind = "text" /\ strip(r.text) = << >>)

C10_FailedInferenceMeansNo ==
    \A i \in 1..Len(calls) :
        ( /\ calls[i].fn \in { "ai_should_reply", "ai_should_escalate" }
          /\ NoAnswer(calls[i].got) ) =>
            /\ calls[i].exc = ""
            /\ ~calls[i].yes
            /\ \A j \in 1..Len(MsgEntries(calls[i].ref)) :
                  /\ MsgEntries(calls[i].ref)[j].tag # "[Escalation]"
                  /\ MsgEntries(calls[i].ref)[j].exc # "InferenceError"

-----------------------------------------------------------------------------
(* C11..C20 *)

\* The log lines of the reminder sweep: a reminder sent, or the sweep's error.
SweepEntries ==
    LET mine(e) ==
            \/ e.tag = "[Reminder]" /\ e.what = "Sent to"
            \/ e.tag = "[Error]" /\ e.what = "Overdue check"
    IN  SelectSeq(log_history, mine)

\* C11: both batch operations run to completion with a full outcome list:
\* when the first run of a session is over, the log holds as many sweep
\* records as there were overdue invoices, and one record for each message of
\* the batch the fetch returned, whatever failed on the way.
C11_BatchesRunToCompletion ==
    (runs = 1 /\ pc = "idle") =>
        /\ Len(SweepEntries) = Len(overdue_invoices)
        /\ \A id \in Batch : Len(MsgEntries(id)) = 1

\* The error lines of the inbox fetch.
FetchErrors ==
    LET mine(e) == e.tag = "[Error]" /\ e.what = "Auto inbox check"
    IN  SelectSeq(log_history, mine)

\* C12: without EMAIL_ADDRESS or EMAIL_PASSWORD every mail operation fails
\* with the configuration error before any transport step: nothing is ever
\* sent, no message is fetched, marked as seen or classified, a sweep that
\* reaches a send and every inbox check end in one error record, the flag
\* is never set by a sweep that had something to send, and the process goes
\* on: the inbox check of the same run and both operations of the later
\* runs still execute.
C12_MissingCredentials ==
    ~creds =>
        /\ sent = << >>
        /\ \A i \in 1..Len(calls) : calls[i].fn = "generate_initial_reminder"
        /\ \A id \in MsgIds : ~mailbox[id].seen
        /\ replies = << >> /\ pc # "triage"
        /\ \A i \in 1..Len(log_history) :
              /\ log_history[i].what = "Auto inbox check" => log_history[i].exc = "ValueError"
              /\ log_history[i].what = "Overdue check" =>
                    log_history[i].exc \in { "ValueError", "InferenceError" }
              /\ log_history[i].tag = "[Reminder]" =>
                    log_history[i].what = "No overdue invoices found"
        /\ reminders_sent => overdue_invoices = << >>
        /\ pc = "idle" =>
              /\ Len(FetchErrors) = runs
              /\ overdue_invoices # << >> => Len(SweepEntries) = runs

C12_Witness ==
    /\ ~creds
    /\ runs = MaxRuns
    /\ pc = "idle"
    /\ mailbox # << >>
    /\ overdue_invoices # << >>
    /\ \A i \in 1..Len(log_history) : log_history[i].exc = "ValueError"
    /\ Len(FetchErrors) = MaxRuns
    /\ Len(SweepEntries) = MaxRuns

\* C13: the activity log is append-only (across every step the log before
\* is a prefix of the log after) and the page shows exactly its last
\* min(50, length) entries, in order.
LastShown ==
    LET n == Len(log_history)
        k == IF n < DISPLAYED THEN n ELSE DISPLAYED
    IN  /\ Len(log_lines) = k
        /\ \A i \in 1..k : log_lines[i] = log_history[n - k + i]

C13_AppendOnlyLog ==
    [][ /\ Len(log_history') >= Len(log_history)
        /\ SubSeq(log_history', 1, Len(log_history)) = log_history
        /\ LastShown /\ LastShown' ]_vars

C13_Witness ==
    /\ Len(log_history) > DISPLAYED
    /\ Len(log_lines) = DISPLAYED
    /\ log_lines[1] # log_history[1]
    /\ log_lines[DISPLAYED] = log_history[Len(log_history)]

\* C14: check_overdue returns exactly the invoices whose status is "unpaid"
\* and whose due date is strictly before today, in the order of its input;
\* a paid invoice, and an unpaid one due today or later, is never selected.
C14_OverdueSelection ==
    Len(fn_res) = 1 =>
        LET res == fn_res[1]
            keep == { i \in 1..Len(fn_arg) :
                        fn_arg[i].status = "unpaid" /\ fn_arg[i].due_date < Today }
            nth(j) == CHOOSE k \in keep : Cardinality({ x \in keep : x <= k }) = j
        IN  /\ Len(res) = Cardinality(keep)
            /\ \A j \in 1..Len(res) :
                  /\ res[j] = fn_arg[nth(j)]
                  /\ res[j].status # "paid"
                  /\ res[j].due_date # Today /\ res[j].due_date # Today + 1

\* The example of the filter: unpaid due yesterday, paid due yesterday, unpaid
\* due tomorrow, and an unpaid one due today.
C14_Witness ==
    /\ Len(fn_arg) = 4
    /\ [i \in 1..4 |-> << fn_arg[i].status, fn_arg[i].due_date >>] =
          << << "unpaid", Today - 1 >>, << "paid", Today - 1 >>,
             << "unpaid", Today + 1 >>, << "unpaid", Today >> >>
    /\ fn_res = << << fn_arg[1] >> >>

\* C15: a message with no extractable plain-text body (no text/plain part,
\* an empty payload or a whitespace-only payload) is filtered out by the
\* fetch: it is in no batch, no classifier is called for it, and no batch
\* holds an empty or whitespace-only body.
NoPlainText(msg) ==
    \/ msg.ctype # "text/plain"
    \/ msg.body.none
    \/ strip(msg.body.s) = << >>

C15_NoBodyFilteredOut ==
    /\ \A id \in MsgIds :
          NoPlainText(mailbox[id]) => (id \notin Batch /\ MsgCalls(id) = << >>)
    /\ \A j \in 1..Len(replies) : strip(replies[j].content) # << >>

\* C16: at-most-once delivery across cycles: a successful fetch returns only
\* messages that were unseen and marks them seen, so no message is returned,
\* classified or answered in more than one cycle: it has at most one call of
\* each classifier and of the reply generation, at most one e-mail of each
\* kind, and none of these before it was fetched.
TimesCalled(id, fn) ==
    Cardinality({ i \in 1..Len(calls) : calls[i].fn = fn /\ calls[i].ref = id })

TimesMailed(id, subject) ==
    Cardinality({ i \in 1..Len(sent) : sent[i].subject = subject /\ sent[i].ref = id })

InboxChecks ==
    LET mine(e) == e.tag = "[Auto Inbox Check]"
    IN  SelectSeq(log_history, mine)

C16_AtMostOnceAcrossCycles ==
    /\ [](\A id \in MsgIds :
            /\ \A fn \in { "ai_should_reply", "ai_should_escalate", "generate_reply" } :
                  TimesCalled(id, fn) <= 1
            /\ \A subject \in { "Re", "Escalation Needed" } : TimesMailed(id, subject) <= 1
            /\ ~mailbox[id].seen =>
                  (MsgCalls(id) = << >> /\ MsgMails(id) = << >> /\ MsgEntries(id) = << >>))
    /\ [][ (pc = "inbox" /\ Len(InboxChecks') > Len(InboxChecks)) =>
              \A j \in 1..Len(replies') :
                  /\ ~mailbox[replies'[j].num].seen
                  /\ mailbox'[replies'[j].num].seen ]_vars

C16_Witness ==
    /\ runs = 2
    /\ pc = "idle"
    /\ Len(InboxChecks) = 2
    /\ InboxChecks[1].what = "Found new email(s)"
    /\ \E id \in MsgIds :
          /\ mailbox[id].seen
          /\ TimesCalled(id, "ai_should_reply") = 1
          /\ TimesMailed(id, "Re") = 1

\* C17: initial reminders are sent once per session: over any sequence of
\* reruns, also after a sweep that failed part-way, no overdue invoice is
\* e-mailed an initial reminder more than once.
Reminders(client) ==
    LET mine(e) == e.subject = "Payment Reminder" /\ e.ref = client
    IN  SelectSeq(sent, mine)

C17_RemindersOncePerSession ==
    \A j \in 1..Len(invoices) : Len(Reminders(invoices[j].client)) <= 1

\* C18: in the escalation branch the notice to the human team is sent before
\* the acknowledgment to the client, and the client is told that the team has
\* been notified only if the notice was delivered: when the escalation send
\* raises, the message gets no acknowledgment, no escalated record, and one
\* error record.
IsNotice(e) == e.subject = "Escalation Needed" /\ e.to = ESCALATION_EMAIL

C18_NoticeBeforeAcknowledgment ==
    \A id \in MsgIds :
        LET mm == MsgMails(id)
        IN  /\ \A i \in 1..Len(mm) :
                  mm[i].body = CLIENT_MESSAGE => \E k \in 1..(i - 1) : IsNotice(mm[k])
            /\ ( /\ Decided(id, "ai_should_escalate", TRUE)
                  /\ \A k \in 1..Len(mm) : ~IsNotice(mm[k]) ) =>
                    /\ mm = << >>
                    /\ Tags(MsgEntries(id)) = << "[Error]" >>

C18_Witness ==
    \E id, other \in MsgIds :
        /\ Decided(id, "ai_should_escalate", TRUE)
        /\ MsgMails(id) = << >>
        /\ Tags(MsgEntries(id)) = << "[Error]" >>
        /\ MsgEntries(id)[1].exc = "SMTPException"
        /\ Len(MsgMails(other)) = 2
        /\ IsNotice(MsgMails(other)[1])
        /\ MsgMails(other)[2].body = CLIENT_MESSAGE

\* C19: the flag reminders_sent is monotonic and is set exactly when a sweep
\* finishes without an exception; once it is set, no later step of the
\* session sends a reminder or appends a reminder record; while it is unset,
\* every rerun starts the sweep again, from the first invoice of the full
\* current overdue set.
ReminderMails ==
    LET mine(e) == e.subject = "Payment Reminder"
    IN  SelectSeq(sent, mine)

ReminderEntries ==
    LET mine(e) == e.tag = "[Reminder]"
    IN  SelectSeq(log_history, mine)

\* The step is the end of a sweep: its last statement, or its except clause.
SweepEnds == pc = "reminders" /\ pc' # "reminders"

SweepRaises == Len(SweepEntries') > Len(SweepEntries) /\ Len(ReminderEntries') = Len(ReminderEntries)

C20_SweepAndTriageIsolated ==
    /\ [](pc = "idle" => Len(InboxChecks) + Len(FetchErrors) = runs)
    /\ [][ /\ SweepRaises => pc' = "inbox"
           /\ Len(FetchErrors') > Len(FetchErrors) =>
                 /\ Len(log_history') = Len(log_history) + 1
                 /\ SubSeq(log_history', 1, Len(log_history)) = log_history
                 /\ reminders_sent' = reminders_sent
                 /\ sent' = sent
                 /\ calls' = calls ]_vars

\* The sweep of the first run raised and its triage cycle processed a message;
\* the sweep of the second run set the flag and its fetch failed.
C20_Witness ==
    /\ runs = 2
    /\ pc = "idle"
    /\ Len(SweepEntries) = 2
    /\ SweepEntries[1].tag = "[Error]"
    /\ \E id \in MsgIds : Len(MsgCalls(id)) >= 1
    /\ reminders_sent
    /\ Len(FetchErrors) = 1
    /\ log_history[Len(log_history)] = FetchErrors[1]

====
